---- MODULE Spec2Model ----
(***************************************************************************)
(* Dice poker (src/dice2_v3.py): the round state machine of class Game,    *)
(* the per-die state of class Die, the slide tween, the hand evaluator     *)
(* compute_hand and the all-red predicate is_all_red.                      *)
(*                                                                         *)
(* Abstractions.  Time is counted in whole milliseconds, the unit in which *)
(* pygame's Clock.tick reports the frame time.  A die's position is one of *)
(* the symbolic places "spawn", "home", "drop", "free", "slot", "mid".     *)
(* Velocity, spin and angle are not stored: the outcome of the rest test   *)
(* of Die.update (lines 414-418) is an input of the tick, as are the       *)
(* values drawn from the random module.                                    *)
(***************************************************************************)
EXTENDS Integers, Sequences, FiniteSets, TLC

VARIABLES
    state,           \* Game.state
    message,         \* Game.message (which text, numbers dropped)
    result_message,  \* Game.result_message
    credit,          \* Game.credit
    wager,           \* Game.wager.value
    side1_active,    \* Game.side1_toggle.active
    side2_active,    \* Game.side2_toggle.active
    side1_stake,     \* Game.side1_stake
    side2_stake,     \* Game.side2_stake
    options_open,    \* Game.options_open
    dice,            \* Game.dice: index -> Die
    ev,              \* the input or frame update handled last, the game
                     \* operation it ran and its argument: the die of a hold
                     \* toggle, the dt of a frame update in ms (history)
    start_credit,    \* the credit before the last accepted start (history)
    start_wager,     \* the wager at the last accepted start (history)
    held_faces,      \* index -> the face of a die held when the reroll was
                     \* requested, 0 for the others (history)
    probe_faces,     \* argument of the hand evaluator under test
    probe_hand,      \* its result
    body,            \* one die under Die.update alone: pos, vel, rest_counter,
                     \* revealed, and the number of steps made
    pair,            \* two dice under the collision pass alone: their pos
                     \* and vel before (di0, dj0) and after it (di, dj)
    table            \* two dice of a roll under the rolling branch of
                     \* Game.update at dt = 1/FPS, and the ticks made

vars == <<state, message, result_message, credit, wager, side1_active,
          side2_active, side1_stake, side2_stake, options_open, dice, ev,
          start_credit, start_wager, held_faces, probe_faces, probe_hand, body,
          pair, table>>

gameVars == <<state, message, result_message, credit, wager, side1_active,
              side2_active, side1_stake, side2_stake, options_open, dice, ev,
              start_credit, start_wager, held_faces>>

probeVars == <<probe_faces, probe_hand, body, pair, table>>

(***************************************************************************)
(* Program constants                                                       *)
(***************************************************************************)
NumDice == 5
REST_FRAMES_REQUIRED == 18
WagerMin == 10
WagerMax == 9999
WagerInitial == 10
SideBaseMin == 5
SidePercent == 10
OneRollFactor == 5
AllRedFactor == 15
HoldAnimMs == 220
PresentAnimMs == 260
AnimDurMinMs == 1
W == 1000
FPS == 60
TABLE_Y == 470
DIE_SIZE == 80
GRAVITY == 2200
BouncePercent == 35
FrictionPercent == 86
AirDragPerMille == 995
REST_EPS == 35
SpinDragPercent == 99
SpinBouncePercent == 75
DropY == 100

Dice == 0 .. (NumDice - 1)
Faces == 1 .. 6
RedFaces == {1, 4}

PAYOUTS ==
    [n \in {"three_kind", "straight", "full_house", "four_kind", "five_kind"} |->
        CASE n = "three_kind" -> 1
          [] n = "straight" -> 3
          [] n = "full_house" -> 5
          [] n = "four_kind" -> 7
          [] n = "five_kind" -> 10]

(***************************************************************************)
(* compute_hand and is_all_red                                             *)
(***************************************************************************)
\* counts: face -> number of dice showing it, for the faces present
Counts(dice_faces) ==
    [f \in {dice_faces[i] : i \in DOMAIN dice_faces} |->
        Cardinality({i \in DOMAIN dice_faces : dice_faces[i] = f})]

\* sorted(counts.values(), reverse=True)
RECURSIVE SortedValuesDesc(_, _)
SortedValuesDesc(counts, keys) ==
    IF keys = {} THEN << >>
    ELSE LET k == CHOOSE x \in keys : \A y \in keys : counts[x] >= counts[y]
         IN  <<counts[k]>> \o SortedValuesDesc(counts, keys \ {k})

\* sorted(dice_faces)
RECURSIVE SortedAsc(_, _)
SortedAsc(dice_faces, idx) ==
    IF idx = {} THEN << >>
    ELSE LET k == CHOOSE x \in idx : \A y \in idx : dice_faces[x] <= dice_faces[y]
         IN  <<dice_faces[k]>> \o SortedAsc(dice_faces, idx \ {k})

Hand(n, m) == [name |-> n, multiplier |-> m]

\* variant: three_kind tested before full_house
compute_hand_wrong_order(dice_faces) ==
    LET counts == Counts(dice_faces)
        sorted_counts == SortedValuesDesc(counts, DOMAIN counts)
        sorted_faces == SortedAsc(dice_faces, DOMAIN dice_faces)
    IN  IF sorted_counts[1] = 5 THEN Hand("five_kind", PAYOUTS["five_kind"])
        ELSE IF sorted_counts[1] = 4 THEN Hand("four_kind", PAYOUTS["four_kind"])
        ELSE IF sorted_counts[1] = 3 THEN Hand("three_kind", PAYOUTS["three_kind"])
        ELSE IF sorted_counts[1] = 3 /\ sorted_counts[2] = 2
             THEN Hand("full_house", PAYOUTS["full_house"])
        ELSE IF Cardinality(DOMAIN counts) = 5
                /\ (sorted_faces = <<1, 2, 3, 4, 5>> \/ sorted_faces = <<2, 3, 4, 5, 6>>)
             THEN Hand("straight", PAYOUTS["straight"])
        ELSE Hand("none", 0)

compute_hand(dice_faces) ==
    LET counts == Counts(dice_faces)
        sorted_counts == SortedValuesDesc(counts, DOMAIN counts)
        sorted_faces == SortedAsc(dice_faces, DOMAIN dice_faces)
    IN  IF sorted_counts[1] = 5 THEN Hand("five_kind", PAYOUTS["five_kind"])
        ELSE IF sorted_counts[1] = 4 THEN Hand("four_kind", PAYOUTS["four_kind"])
        ELSE IF sorted_counts[1] = 3 /\ sorted_counts[2] = 2
             THEN Hand("full_house", PAYOUTS["full_house"])
        ELSE IF Cardinality(DOMAIN counts) = 5
                /\ (sorted_faces = <<1, 2, 3, 4, 5>> \/ sorted_faces = <<2, 3, 4, 5, 6>>)
             THEN Hand("straight", PAYOUTS["straight"])
        ELSE IF sorted_counts[1] = 3 THEN Hand("three_kind", PAYOUTS["three_kind"])
        ELSE Hand("none", 0)

\* variant: any() in place of all()
is_any_red(dice_faces) == \E i \in DOMAIN dice_faces : dice_faces[i] \in RedFaces

is_all_red(dice_faces) == \A i \in DOMAIN dice_faces : dice_faces[i] \in RedFaces

(***************************************************************************)
(* Bounds of the model and the input sets of the environment               *)
(***************************************************************************)
MaxWager == 20          \* wagers above this are not explored
MaxCredit == 20         \* a round is started only with at most this credit
MaxRestartCredit == 10  \* ... and from finished only with at most this credit
MaxRestCounter == 18    \* a die is not stepped at rest beyond this count

InitCredits == {15}             \* balances load_save may return
DtChoices == {110}              \* frame times Clock.tick may report, in ms
ShortDtChoices == {55}          \* frame times short enough for a die to rest
InitFaces == {6}                \* random.randint(1, 6) in Die.__init__
ResetFaces == {3}               \* random.randint(1, 6) in Die.reset_roll
TumbleFaces == {5}              \* random.randint(1, 6) of the tumble redraw
TumbleDice == {0}               \* the dice whose tumble redraw fires
\* random.randint(1, 6) when die i settles
SettleFaces(i) ==
    CASE i = 0 -> {1, 2}
      [] i = 2 -> {2, 4}
      [] i = 3 -> {4}
      [] OTHER -> {1}
\* the sets of dice that pass the rest test in one frame: all, none, and in
\* the first roll die 0 alone
RestChoices(phase) ==
    IF phase = "rolling1" THEN {Dice, {}, {0}} ELSE {Dice, {}}
\* the frames of a roll, as pairs of frame time and dice that pass the rest
\* test: gravity alone adds GRAVITY * dt to vel.y, so that after a long frame
\* no die passes the test (REST_EPS); a short frame is taken with dice at rest
RollFrames(phase) ==
    {fr \in (ShortDtChoices \cup DtChoices) \X RestChoices(phase) :
        fr[2] # {} <=> fr[1] \in ShortDtChoices}
WagerDeltas == {-100, -10, 10, 100}
HoldKeys == {0, 2}              \* the dice the player toggles
OptionsPhases == {"betting", "hold"}  \* phases in which the player opens Options

Max(a, b) == IF a >= b THEN a ELSE b
Min(a, b) == IF a <= b THEN a ELSE b

\* clamp(value, lo, hi)
clamp(value, lo, hi) == Max(lo, Min(hi, value))

(***************************************************************************)
(* class Die                                                               *)
(***************************************************************************)
\* Die.__init__ followed by the loop of Game.__init__ (lines 606-612)
NewDie(f) ==
    [pos |-> "home", face |-> f, revealed |-> TRUE, rest_counter |-> 0,
     hold |-> FALSE, parked |-> FALSE, anim_active |-> FALSE, anim_t |-> 0,
     anim_dur |-> 0, anim_start |-> "spawn", anim_end |-> "spawn",
     anim_parked_end |-> "None"]

\* variant: a tween under way survives the reset
reset_roll_keeps_tween(d, f) ==
    [d EXCEPT !.pos = "drop", !.revealed = FALSE, !.rest_counter = 0,
              !.face = f, !.parked = FALSE]

\* variant: the rest counter survives the reset
reset_roll_keeps_rest(d, f) ==
    [d EXCEPT !.pos = "drop", !.revealed = FALSE,
              !.face = f, !.anim_active = FALSE, !.parked = FALSE]

reset_roll(d, f) ==
    [d EXCEPT !.pos = "drop", !.revealed = FALSE, !.rest_counter = 0,
              !.face = f, !.anim_active = FALSE, !.parked = FALSE]

start_anim(d, target, dur, parked_end) ==
    [d EXCEPT !.anim_active = TRUE, !.anim_t = 0,
              !.anim_dur = Max(AnimDurMinMs, dur),
              !.anim_start = d.pos, !.anim_end = target,
              !.anim_parked_end = parked_end]

\* anim_start.lerp(anim_end, k) for 0 < k < 1
Lerp(a, b) == IF a = b THEN a ELSE "mid"

\* variant: the tween ends without the snap to its end position
update_anim_no_snap(d, dt) ==
    IF ~d.anim_active THEN d
    ELSE LET t == d.anim_t + dt
         IN  IF t >= d.anim_dur
             THEN [d EXCEPT !.anim_t = t, !.pos = Lerp(d.anim_start, d.anim_end),
                            !.anim_active = FALSE,
                            !.parked = IF d.anim_parked_end # "None"
                                       THEN d.anim_parked_end = "True" ELSE @,
                            !.anim_parked_end = "None"]
             ELSE [d EXCEPT !.anim_t = t, !.pos = Lerp(d.anim_start, d.anim_end)]

\* variant: the end of a tween leaves the parked flag alone
update_anim_keeps_parked(d, dt) ==
    IF ~d.anim_active THEN d
    ELSE LET t == d.anim_t + dt
         IN  IF t >= d.anim_dur
             THEN [d EXCEPT !.anim_t = t, !.pos = d.anim_end,
                            !.anim_active = FALSE,
                            !.anim_parked_end = "None"]
             ELSE [d EXCEPT !.anim_t = t, !.pos = Lerp(d.anim_start, d.anim_end)]

update_anim(d, dt) ==
    IF ~d.anim_active THEN d
    ELSE LET t == d.anim_t + dt
         IN  IF t >= d.anim_dur
             THEN [d EXCEPT !.anim_t = t, !.pos = d.anim_end,
                            !.anim_active = FALSE,
                            !.parked = IF d.anim_parked_end # "None"
                                       THEN d.anim_parked_end = "True" ELSE @,
                            !.anim_parked_end = "None"]
             ELSE [d EXCEPT !.anim_t = t, !.pos = Lerp(d.anim_start, d.anim_end)]

\* variant: the tumble redraw not restricted to un-revealed dice
PhysicsTumblesRevealed(d, rest, sf, tf) ==
    LET rc == IF rest THEN d.rest_counter + 1 ELSE 0
        settles == ~d.revealed /\ rc >= REST_FRAMES_REQUIRED
        rev == d.revealed \/ settles
    IN  [d EXCEPT !.pos = "free", !.rest_counter = rc, !.revealed = rev,
                  !.face = IF settles THEN sf
                           ELSE IF tf # 0 THEN tf ELSE @]

\* variant: a die knocked out of rest is un-revealed again
PhysicsForgetsReveal(d, rest, sf, tf) ==
    LET rc == IF rest THEN d.rest_counter + 1 ELSE 0
        settles == ~d.revealed /\ rc >= REST_FRAMES_REQUIRED
        rev == (d.revealed /\ rest) \/ settles
    IN  [d EXCEPT !.pos = "free", !.rest_counter = rc, !.revealed = rev,
                  !.face = IF settles THEN sf
                           ELSE IF ~rev /\ tf # 0 THEN tf ELSE @]

\* The rest test, the settle and the tumble redraw of Die.update.
\* rest: whether the rest test passes after this step's motion;
\* sf: the face drawn if the die settles; tf: the tumble face, 0 for no redraw.
Physics(d, rest, sf, tf) ==
    LET rc == IF rest THEN d.rest_counter + 1 ELSE 0
        settles == ~d.revealed /\ rc >= REST_FRAMES_REQUIRED
        rev == d.revealed \/ settles
    IN  [d EXCEPT !.pos = "free", !.rest_counter = rc, !.revealed = rev,
                  !.face = IF settles THEN sf
                           ELSE IF ~rev /\ tf # 0 THEN tf ELSE @]

DieUpdate(d, dt, rest, sf, tf) ==
    IF d.anim_active THEN update_anim(d, dt)
    ELSE IF d.parked THEN d
    ELSE Physics(d, rest, sf, tf)

\* whether Die.update reaches the physics step
IsFree(d) == ~d.anim_active /\ ~d.parked
WillSettle(d, rest) ==
    IsFree(d) /\ ~d.revealed /\ rest /\ d.rest_counter + 1 >= REST_FRAMES_REQUIRED
\* whether the step reaches the end of the physics, where the tumble redraw
\* is decided
MayTumble(d, rest) == IsFree(d)

FacesOf(ds) == [i \in 1 .. NumDice |-> ds[i - 1].face]
\* variant: one revealed die is enough
some_die_revealed(ds) == \E i \in Dice : ds[i].revealed

all_dice_revealed(ds) == \A i \in Dice : ds[i].revealed
all_anims_done(ds) == \A i \in Dice : ~ds[i].anim_active

(***************************************************************************)
(* The physics of Die.update for one die, in fixed point: positions in     *)
(* 1/Unit px, velocities in 1/Unit px/s, the angle in 1/Unit degrees and   *)
(* the spin in 1/Unit degrees/s, products rounded toward 0, dt = 1/FPS.    *)
(***************************************************************************)
Unit == 100

Abs(v) == IF v >= 0 THEN v ELSE -v

\* v * num / den
Scaled(v, num, den) ==
    IF v >= 0 THEN (v * num) \div den ELSE -((-v * num) \div den)

\* the floor line and the walls, for the centre of a die
GroundY == (TABLE_Y - DIE_SIZE \div 2) * Unit
LeftWall == (DIE_SIZE \div 2) * Unit
RightWall == (W - DIE_SIZE \div 2) * Unit

\* a die after reset_roll(x, DropY) drew the velocity (vx, vy)
NewBody(x, vx, vy, spin, angle) ==
    [px |-> x * Unit, py |-> DropY * Unit, vx |-> vx * Unit, vy |-> vy * Unit,
     spin |-> spin * Unit, angle |-> angle * Unit,
     rest_counter |-> 0, revealed |-> FALSE, ticks |-> 0]

\* gravity and the move
Fall(b) ==
    LET vy == b.vy + Scaled(GRAVITY * Unit, 1, FPS)
    IN  [b EXCEPT !.vy = vy, !.px = @ + Scaled(b.vx, 1, FPS),
                  !.py = @ + Scaled(vy, 1, FPS)]

\* wall bounces
WallBounce(b) ==
    IF b.px < LeftWall
    THEN IF b.vx < 0
         THEN [b EXCEPT !.px = LeftWall, !.vx = -Scaled(b.vx, BouncePercent, 100),
                        !.vy = Scaled(b.vy, FrictionPercent, 100),
                        !.spin = Scaled(b.spin, SpinBouncePercent, 100)]
         ELSE [b EXCEPT !.px = LeftWall]
    ELSE IF b.px > RightWall
    THEN IF b.vx > 0
         THEN [b EXCEPT !.px = RightWall, !.vx = -Scaled(b.vx, BouncePercent, 100),
                        !.vy = Scaled(b.vy, FrictionPercent, 100),
                        !.spin = Scaled(b.spin, SpinBouncePercent, 100)]
         ELSE [b EXCEPT !.px = RightWall]
    ELSE b

\* drag, and the turn of the die
Drag(b) ==
    LET spin == Scaled(b.spin, SpinDragPercent, 100)
    IN  [b EXCEPT !.vx = Scaled(@, AirDragPerMille, 1000),
                  !.vy = Scaled(@, AirDragPerMille, 1000),
                  !.spin = spin,
                  !.angle = @ + Scaled(spin, 1, FPS)]

\* variant: the bounce off the table loses no speed
TableBounceElastic(b) ==
    IF b.py > GroundY
    THEN IF b.vy > 0
         THEN [b EXCEPT !.py = GroundY, !.vy = -b.vy,
                        !.vx = Scaled(b.vx, FrictionPercent, 100),
                        !.spin = Scaled(b.spin, SpinBouncePercent, 100)]
         ELSE [b EXCEPT !.py = GroundY]
    ELSE b

\* variant: the die is not put back on the floor line
TableBounceNoClamp(b) ==
    IF b.py > GroundY /\ b.vy > 0
    THEN [b EXCEPT !.vy = -Scaled(b.vy, BouncePercent, 100),
                   !.vx = Scaled(b.vx, FrictionPercent, 100),
                   !.spin = Scaled(b.spin, SpinBouncePercent, 100)]
    ELSE b

\* bounce off table
TableBounce(b) ==
    IF b.py > GroundY
    THEN IF b.vy > 0
         THEN [b EXCEPT !.py = GroundY, !.vy = -Scaled(b.vy, BouncePercent, 100),
                        !.vx = Scaled(b.vx, FrictionPercent, 100),
                        !.spin = Scaled(b.spin, SpinBouncePercent, 100)]
         ELSE [b EXCEPT !.py = GroundY]
    ELSE b

\* rest detection
AtRest(b) ==
    /\ Abs(b.vy) < REST_EPS * Unit
    /\ Abs(b.vx) < REST_EPS * Unit
    /\ b.py >= GroundY - Unit \div 10

\* random.choice([0, 90, 180, 270])
RightAngles == {0, 90, 180, 270}

\* variant: a step off rest leaves the rest counter as it is
RestStepNoReset(b, angle) ==
    LET rc == IF AtRest(b) THEN b.rest_counter + 1 ELSE b.rest_counter
        settles == ~b.revealed /\ rc >= REST_FRAMES_REQUIRED
    IN  [b EXCEPT !.rest_counter = rc,
                  !.revealed = @ \/ settles,
                  !.spin = IF settles THEN 0 ELSE @,
                  !.angle = IF settles THEN angle * Unit ELSE @]

\* rest counter and settle; angle: the angle drawn if the die settles
RestStep(b, angle) ==
    LET rc == IF AtRest(b) THEN b.rest_counter + 1 ELSE 0
        settles == ~b.revealed /\ rc >= REST_FRAMES_REQUIRED
    IN  [b EXCEPT !.rest_counter = rc,
                  !.revealed = @ \/ settles,
                  !.spin = IF settles THEN 0 ELSE @,
                  !.angle = IF settles THEN angle * Unit ELSE @]

\* Die.update past its early returns
BodyUpdate(b, angle) == RestStep(TableBounce(Drag(WallBounce(Fall(b)))), angle)

(***************************************************************************)
(* The collision pass of Game.update for one pair of dice, in fixed point: *)
(* positions in 1/Unit px, velocities in 1/Unit px/s, the unit normal in   *)
(* 1/NormUnit, every product and root rounded toward 0.                    *)
(***************************************************************************)
NormUnit == 10000

RECURSIVE Newton(_, _)
Newton(q, x) ==
    LET y == (x + q \div x) \div 2
    IN  IF y >= x THEN x ELSE Newton(q, y)

\* the square root of q
Isqrt(q) == IF q = 0 THEN 0 ELSE Newton(q, q)

\* Vector2.length
Length(x, y) == Isqrt(x * x + y * y)

\* Die.radius
Radius == Isqrt(2 * (DIE_SIZE \div 2) * (DIE_SIZE \div 2) * Unit * Unit)

\* the position and velocity of a die
Puck(x, y, vx, vy) ==
    [px |-> x * Unit, py |-> y * Unit, vx |-> vx * Unit, vy |-> vy * Unit]

NewPair(a, b) == [di0 |-> a, dj0 |-> b, di |-> a, dj |-> b, resolved |-> FALSE]

\* variant: only the first die of the pair is pushed back
ResolveFirstOnly(a, b) ==
    LET vx == b.px - a.px
        vy == b.py - a.py
        dist == Length(vx, vy)
        d_min == Radius + Radius
        nx == Scaled(vx, NormUnit, dist)
        ny == Scaled(vy, NormUnit, dist)
        overlap == d_min - dist
    IN  IF Abs(vx) >= d_min \/ Abs(vy) >= d_min \/ dist = 0 \/ dist >= d_min
        THEN <<a, b>>
        ELSE <<[a EXCEPT !.px = @ - Scaled(nx, overlap, 2 * NormUnit),
                         !.py = @ - Scaled(ny, overlap, 2 * NormUnit)], b>>

\* the body of the pair loop for (di, dj) = (a, b): the pair after it
Resolve(a, b) ==
    LET vx == b.px - a.px
        vy == b.py - a.py
        dist == Length(vx, vy)
        d_min == Radius + Radius
        nx == Scaled(vx, NormUnit, dist)
        ny == Scaled(vy, NormUnit, dist)
        overlap == d_min - dist
        \* n * correction, correction = overlap / 2
        cx == Scaled(nx, overlap, 2 * NormUnit)
        cy == Scaled(ny, overlap, 2 * NormUnit)
        rel_vn == Scaled(a.vx - b.vx, nx, NormUnit)
                    + Scaled(a.vy - b.vy, ny, NormUnit)
        adjust == Scaled(rel_vn, 100 + BouncePercent, 200)
        ax == Scaled(adjust, nx, NormUnit)
        ay == Scaled(adjust, ny, NormUnit)
    \* two centres d_min apart along one axis are d_min apart; the root is
    \* taken of the others only
    IN  IF Abs(vx) >= d_min \/ Abs(vy) >= d_min \/ dist = 0 \/ dist >= d_min
        THEN <<a, b>>
        ELSE IF rel_vn < 0
        THEN <<[a EXCEPT !.px = @ - cx, !.py = @ - cy,
                         !.vx = @ + ax, !.vy = @ + ay],
               [b EXCEPT !.px = @ + cx, !.py = @ + cy,
                         !.vx = @ - ax, !.vy = @ - ay]>>
        ELSE <<[a EXCEPT !.px = @ - cx, !.py = @ - cy],
               [b EXCEPT !.px = @ + cx, !.py = @ + cy]>>


(***************************************************************************)
(* class Game: construction                                                *)
(***************************************************************************)
Event(k, c, a) == [kind |-> k, call |-> c, arg |-> a]

\* the history variables after a handler ran; conjoined after the handler
Handled(k, c, a) ==
    /\ ev' = Event(k, c, a)
    /\ start_credit' = IF state \in {"betting", "finished"} /\ state' = "rolling1"
                       THEN credit ELSE start_credit
    /\ start_wager' = IF state \in {"betting", "finished"} /\ state' = "rolling1"
                      THEN wager ELSE start_wager
    /\ held_faces' = IF state \in {"betting", "finished"} /\ state' = "rolling1"
                     THEN [i \in Dice |-> 0]
                     ELSE IF c = "commit_reroll"
                     THEN [i \in Dice |-> IF dice[i].hold THEN dice[i].face ELSE 0]
                     ELSE held_faces
    /\ UNCHANGED probeVars

\* Game.result_message when it is the empty string
NoResult == [hand |-> "", payout |-> 0, all_red |-> ""]

\* variables other than ev and the probe, for handlers that change nothing
roundVars == <<state, message, result_message, credit, wager, side1_active,
               side2_active, side1_stake, side2_stake, options_open, dice>>

\* slot_centers[i] (lines 596-604): slots of DIE_SIZE + 14, 18 apart, centred
SlotSize == DIE_SIZE + 14
SlotGap == 18
SlotTop == 110
SlotX(i) == (W - (NumDice * SlotSize + (NumDice - 1) * SlotGap)) \div 2
              + i * (SlotSize + SlotGap) + SlotSize \div 2
SlotY == SlotTop + SlotSize \div 2
\* dice_positions[i][0]
ColumnX(i) == 220 + i * 120

\* die i after reset_roll(x, DropY) drew the velocity v, the face ResetFaces
\* and a spin and an angle
FreeDie(i, v) ==
    [px |-> ColumnX(i) * Unit, py |-> DropY * Unit,
     vx |-> v[1] * Unit, vy |-> v[2] * Unit,
     spin |-> 300 * Unit, angle |-> 45 * Unit,
     rest_counter |-> 0, revealed |-> FALSE,
     face |-> CHOOSE f \in ResetFaces : TRUE, hold |-> FALSE,
     parked |-> FALSE, anim_active |-> FALSE, anim_n |-> 0, anim_dur |-> 0,
     sx |-> 0, sy |-> 0, ex |-> 0, ey |-> 0, anim_parked_end |-> "None"]

\* die i after commit_reroll found it held and parked in its slot, showing
\* the face f
ParkedDie(i, f) ==
    [px |-> SlotX(i) * Unit, py |-> SlotY * Unit, vx |-> 0, vy |-> 0,
     spin |-> 0, angle |-> 90 * Unit,
     rest_counter |-> REST_FRAMES_REQUIRED, revealed |-> TRUE,
     face |-> f, hold |-> TRUE,
     parked |-> TRUE, anim_active |-> FALSE, anim_n |-> 0,
     anim_dur |-> HoldAnimMs,
     sx |-> ColumnX(i) * Unit, sy |-> GroundY,
     ex |-> SlotX(i) * Unit, ey |-> SlotY * Unit, anim_parked_end |-> "None"]

\* die i after commit_reroll found it held, n frames into its slide from
\* the floor line to its slot
SlidingDie(i, f, n) ==
    [px |-> ColumnX(i) * Unit, py |-> GroundY, vx |-> 0, vy |-> 0,
     spin |-> 0, angle |-> 90 * Unit,
     rest_counter |-> REST_FRAMES_REQUIRED, revealed |-> TRUE,
     face |-> f, hold |-> TRUE,
     parked |-> FALSE, anim_active |-> TRUE, anim_n |-> n,
     anim_dur |-> HoldAnimMs,
     sx |-> ColumnX(i) * Unit, sy |-> GroundY,
     ex |-> SlotX(i) * Unit, ey |-> SlotY * Unit, anim_parked_end |-> "True"]

NewTable(a, b) == [d |-> <<a, b>>, ticks |-> 0]

Init ==
    /\ state = "betting"
    /\ message = ""
    /\ result_message = NoResult
    /\ credit \in InitCredits
    /\ wager = WagerInitial
    /\ side1_active = FALSE
    /\ side2_active = FALSE
    /\ side1_stake = 0
    /\ side2_stake = 0
    /\ options_open = FALSE
    /\ dice \in [Dice -> {NewDie(f) : f \in InitFaces}]
    /\ ev = Event("init", "none", -1)
    /\ start_credit = credit
    /\ start_wager = wager
    /\ held_faces = [i \in Dice |-> 0]
    /\ probe_faces = <<1, 1, 1, 1, 1>>
    /\ probe_hand = Hand("unset", 0)
    /\ body = NewBody(220, 0, 0, 0, 0)
    /\ pair = NewPair(Puck(220, DropY, 0, 0), Puck(340, DropY, 0, 0))
    /\ table = NewTable(FreeDie(0, <<0, 0>>), FreeDie(1, <<0, 0>>))

(***************************************************************************)
(* Game.start_round, run on the dice d0 and the result message rm0 the     *)
(* caller leaves behind                                                    *)
(***************************************************************************)
\* max(5, math.ceil(bet * 0.10))
SideBase(bet) == Max(SideBaseMin, (bet * SidePercent + 99) \div 100)

Side1Stake(bet) == IF side1_active THEN SideBase(bet) ELSE 0
Side2Stake(bet) == IF side2_active THEN SideBase(bet) ELSE 0
\* variant: the all-red stake not charged
TotalCostNoAllRed(bet) == bet + Side1Stake(bet)

\* variant: the side stakes left out of the cost
TotalCostWagerOnly(bet) == bet

TotalCost(bet) == bet + Side1Stake(bet) + Side2Stake(bet)

\* variant: the cost is never tested against the credit
ExceedsCreditNever(cost) == FALSE

\* total_cost > self.credit
ExceedsCredit(cost) == cost > credit

StartRound(d0, rm0) ==
    LET bet == wager IN
    IF bet > credit
    THEN /\ message' = "Insufficient credit for wager."
         /\ dice' = d0
         /\ result_message' = rm0
         /\ UNCHANGED <<state, credit, wager, side1_active, side2_active,
                        side1_stake, side2_stake, options_open>>
    ELSE /\ side1_stake' = Side1Stake(bet)
         /\ side2_stake' = Side2Stake(bet)
         /\ IF ExceedsCredit(TotalCost(bet))
            THEN /\ message' = "Insufficient credit for wager and side bets."
                 /\ dice' = d0
                 /\ result_message' = rm0
                 /\ UNCHANGED <<state, credit, wager, side1_active,
                                side2_active, options_open>>
            ELSE /\ credit <= (IF state = "finished" THEN MaxRestartCredit ELSE MaxCredit)
                 /\ credit' = credit - TotalCost(bet)
                 /\ \E fs \in [Dice -> ResetFaces] :
                        dice' = [i \in Dice |->
                                    reset_roll([d0[i] EXCEPT !.hold = FALSE,
                                                             !.parked = FALSE,
                                                             !.anim_active = FALSE],
                                               fs[i])]
                 /\ result_message' = NoResult
                 /\ state' = "rolling1"
                 /\ message' = "Rolling..."
                 /\ UNCHANGED <<wager, side1_active, side2_active, options_open>>

(***************************************************************************)
(* Game.toggle_hold_index, Game.commit_reroll, Game.do_primary_action      *)
(***************************************************************************)
\* variant: the test of anim_active left out
ToggleHoldIndexRestarts(idx) ==
    LET die == dice[idx] IN
    /\ dice' = IF ~die.hold
               THEN [dice EXCEPT ![idx] =
                        start_anim([die EXCEPT !.hold = TRUE], "slot", HoldAnimMs, "True")]
               ELSE [dice EXCEPT ![idx] =
                        start_anim([die EXCEPT !.hold = FALSE, !.parked = FALSE],
                                   "home", HoldAnimMs, "False")]
    /\ UNCHANGED <<state, message, result_message, credit, wager, side1_active,
                   side2_active, side1_stake, side2_stake, options_open>>

ToggleHoldIndex(idx) ==
    LET die == dice[idx] IN
    /\ dice' = IF die.anim_active THEN dice
               ELSE IF ~die.hold
               THEN [dice EXCEPT ![idx] =
                        start_anim([die EXCEPT !.hold = TRUE], "slot", HoldAnimMs, "True")]
               ELSE [dice EXCEPT ![idx] =
                        start_anim([die EXCEPT !.hold = FALSE, !.parked = FALSE],
                                   "home", HoldAnimMs, "False")]
    /\ UNCHANGED <<state, message, result_message, credit, wager, side1_active,
                   side2_active, side1_stake, side2_stake, options_open>>

\* variant: held dice rolled again with the others
CommitRerollResetsAll ==
    /\ \E fs \in [Dice -> ResetFaces] :
          dice' = [i \in Dice |-> reset_roll(dice[i], fs[i])]
    /\ state' = "rolling2"
    /\ message' = "Rolling final..."
    /\ UNCHANGED <<result_message, credit, wager, side1_active, side2_active,
                   side1_stake, side2_stake, options_open>>

\* variant: the second roll skipped
CommitRerollToPresenting ==
    /\ \E fs \in [{i \in Dice : ~dice[i].hold} -> ResetFaces] :
          dice' = [i \in Dice |->
                      IF dice[i].hold
                      THEN [dice[i] EXCEPT !.revealed = TRUE,
                                           !.parked = IF ~dice[i].anim_active
                                                      THEN TRUE ELSE @]
                      ELSE reset_roll(dice[i], fs[i])]
    /\ state' = "presenting"
    /\ message' = "Rolling final..."
    /\ UNCHANGED <<result_message, credit, wager, side1_active, side2_active,
                   side1_stake, side2_stake, options_open>>

CommitReroll ==
    /\ \E fs \in [{i \in Dice : ~dice[i].hold} -> ResetFaces] :
          dice' = [i \in Dice |->
                      IF dice[i].hold
                      THEN [dice[i] EXCEPT !.revealed = TRUE,
                                           !.parked = IF ~dice[i].anim_active
                                                      THEN TRUE ELSE @]
                      ELSE reset_roll(dice[i], fs[i])]
    /\ state' = "rolling2"
    /\ message' = "Rolling final..."
    /\ UNCHANGED <<result_message, credit, wager, side1_active, side2_active,
                   side1_stake, side2_stake, options_open>>

\* variant: the reroll not restricted to hold
DoPrimaryActionAnyPhase ==
    IF options_open THEN UNCHANGED roundVars
    ELSE IF state = "betting" THEN StartRound(dice, result_message)
    ELSE IF state = "finished"
    THEN StartRound([i \in Dice |-> [dice[i] EXCEPT !.hold = FALSE,
                                                    !.parked = FALSE,
                                                    !.anim_active = FALSE]], NoResult)
    ELSE CommitReroll

DoPrimaryAction ==
    IF options_open THEN UNCHANGED roundVars
    ELSE IF state = "betting" THEN StartRound(dice, result_message)
    ELSE IF state = "finished"
    THEN StartRound([i \in Dice |-> [dice[i] EXCEPT !.hold = FALSE,
                                                    !.parked = FALSE,
                                                    !.anim_active = FALSE]], NoResult)
    ELSE IF state = "hold" THEN CommitReroll
    ELSE UNCHANGED roundVars

(***************************************************************************)
(* Game.update                                                             *)
(***************************************************************************)
\* the result message of the final evaluation
ResultMessage(hand, payout, allred) ==
    [hand |-> hand.name, payout |-> payout, all_red |-> allred]

\* variant: the one-roll side bet paid whatever the opening hand
OneRollPayAnyHand(faces) ==
    IF side1_stake > 0 THEN side1_stake * OneRollFactor ELSE 0

\* One-roll side bet, resolved when rolling1 sees all dice revealed
OneRollPay(faces) ==
    IF side1_stake > 0 /\ compute_hand(faces).multiplier > 0
    THEN side1_stake * OneRollFactor ELSE 0

\* variant: the payout net of the wager
MainPayNet(faces) ==
    LET multiplier == compute_hand(faces).multiplier
    IN  IF multiplier > 0 THEN wager * (multiplier - 1) ELSE 0

\* Main payout of the final hand
MainPay(faces) ==
    LET multiplier == compute_hand(faces).multiplier
    IN  IF multiplier > 0 THEN wager * multiplier ELSE 0

\* All-red side bet
AllRedPay(faces) ==
    IF side2_stake > 0 /\ is_all_red(faces) THEN side2_stake * AllRedFactor ELSE 0

\* the faces drawn by the dice of S that settle in one frame
SettleDraws(S) == {sfs \in [S -> Faces] : \A i \in S : sfs[i] \in SettleFaces(i)}

\* the dice after the loop "for die in self.dice: die.update(dt)" and the
\* collision pass, which moves free dice but leaves them "free"
RollingDice(dt, R, sfs, tk) ==
    [i \in Dice |->
        DieUpdate(dice[i], dt, i \in R,
                  IF i \in DOMAIN sfs THEN sfs[i] ELSE 0,
                  IF tk[1] = i THEN tk[2] ELSE 0)]

UpdateRolling ==
    /\ state \in {"rolling1", "rolling2"}
    /\ \E fr \in RollFrames(state) :
          LET dt == fr[1]
              R == fr[2]
          IN
          /\ \A i \in R : IsFree(dice[i]) => dice[i].rest_counter < MaxRestCounter
          /\ \E sfs \in SettleDraws({i \in Dice : WillSettle(dice[i], i \in R)}),
                tk \in {<<-1, 0>>} \cup
                       ({i \in TumbleDice : MayTumble(dice[i], i \in R)} \X TumbleFaces) :
                LET nd == RollingDice(dt, R, sfs, tk)
                    faces == FacesOf(nd)
                IN  IF ~all_dice_revealed(nd)
                    THEN /\ dice' = nd
                         /\ UNCHANGED <<state, message, result_message, credit>>
                    ELSE IF state = "rolling1"
                    THEN /\ credit' = credit + OneRollPay(faces)
                         /\ message' = IF OneRollPay(faces) > 0 THEN "One Roll pays"
                                       ELSE IF side1_stake > 0 THEN "One Roll misses"
                                       ELSE "Click dice to hold, then Roll Again."
                         /\ state' = "hold"
                         /\ dice' = nd
                         /\ UNCHANGED result_message
                    ELSE /\ credit' = credit + MainPay(faces) + AllRedPay(faces)
                         /\ result_message' =
                               ResultMessage(compute_hand(faces), MainPay(faces),
                                             IF side2_stake = 0 THEN ""
                                             ELSE IF is_all_red(faces) THEN "pays"
                                             ELSE "lost")
                         /\ dice' = [i \in Dice |->
                                       start_anim(nd[i], "slot", PresentAnimMs, "True")]
                         /\ state' = "presenting"
                         /\ message' = "Resolving..."
          /\ UNCHANGED <<wager, side1_active, side2_active, side1_stake,
                         side2_stake, options_open>>
          /\ Handled("tick", "update", dt)

UpdatePresenting ==
    /\ state = "presenting"
    /\ \E dt \in DtChoices :
          LET nd == [i \in Dice |-> update_anim(dice[i], dt)]
          IN  /\ dice' = nd
              /\ IF all_anims_done(nd)
                 THEN state' = "finished" /\ message' = ""
                 ELSE UNCHANGED <<state, message>>
              /\ UNCHANGED <<result_message, credit, wager, side1_active,
                             side2_active, side1_stake, side2_stake, options_open>>
              /\ Handled("tick", "update", dt)

UpdateIdle ==
    /\ state \in {"betting", "hold", "finished"}
    /\ \E dt \in DtChoices :
          /\ dice' = [i \in Dice |-> update_anim(dice[i], dt)]
          /\ UNCHANGED <<state, message, result_message, credit, wager,
                         side1_active, side2_active, side1_stake, side2_stake,
                         options_open>>
          /\ Handled("tick", "update", dt)

(***************************************************************************)
(* Game.handle_event, one action per kind of input event.  With the        *)
(* Options panel open a key press other than Escape is dropped and a click *)
(* on a control of the bottom panel, which lies outside the Options        *)
(* rectangle, closes the panel; a click on a die lies inside it.           *)
(***************************************************************************)
Ignored(k) == UNCHANGED roundVars /\ Handled(k, "none", -1)

CloseOptions(k) ==
    /\ options_open' = FALSE
    /\ UNCHANGED <<state, message, result_message, credit, wager, side1_active,
                   side2_active, side1_stake, side2_stake, dice>>
    /\ Handled(k, "close_options", -1)

\* variant: hold toggles accepted in every phase
HoldGateOpen == TRUE

\* the gate of the keys 1-5 (line 833) and of a click on a die (line 865)
HoldGate == state = "hold"

\* variant: the wager and the side bets open to change in every phase
BetGateOpen == TRUE

\* the gate of the wager keys (line 839) and of the bottom-panel controls
\* (lines 858 and 875)
BetGate == state \in {"betting", "finished"}

\* the operation do_primary_action runs in the current phase
PrimaryCall ==
    IF state \in {"betting", "finished"} THEN "start_round"
    ELSE IF state = "hold" THEN "commit_reroll" ELSE "none"

\* Space
KeySpace ==
    IF options_open THEN Ignored("primary_input")
    ELSE DoPrimaryAction /\ Handled("primary_input", PrimaryCall, -1)

\* Keys 1-5
KeyDigit(idx) ==
    IF options_open THEN Ignored("hold_input")
    ELSE IF HoldGate
    THEN ToggleHoldIndex(idx) /\ Handled("hold_input", "toggle_hold_index", idx)
    ELSE Ignored("hold_input")

\* Left click on die idx
ClickDie(idx) ==
    IF options_open THEN Ignored("hold_input")
    ELSE IF HoldGate
    THEN ToggleHoldIndex(idx) /\ Handled("hold_input", "toggle_hold_index", idx)
    ELSE Ignored("hold_input")

\* Game.adjust_wager and WagerControl.handle_event
AdjustWager(delta) ==
    /\ wager' = clamp(wager + delta, WagerMin, WagerMax)
    /\ wager' <= MaxWager
    /\ UNCHANGED <<state, message, result_message, credit, side1_active,
                   side2_active, side1_stake, side2_stake, options_open, dice>>

\* , and . (with Shift: 100)
KeyWager(delta) ==
    IF options_open THEN Ignored("bet_input")
    ELSE IF BetGate
    THEN AdjustWager(delta) /\ Handled("bet_input", "adjust_wager", -1)
    ELSE Ignored("bet_input")

\* Left click on one of the four wager buttons
ClickWager(delta) ==
    IF options_open THEN CloseOptions("bet_input")
    ELSE IF BetGate
    THEN AdjustWager(delta) /\ Handled("bet_input", "adjust_wager", -1)
    ELSE Ignored("bet_input")

\* Left click on the One Roll checkbox
ClickSide1 ==
    IF options_open THEN CloseOptions("bet_input")
    ELSE IF BetGate
    THEN /\ side1_active' = ~side1_active
         /\ UNCHANGED <<state, message, result_message, credit, wager, side2_active,
                        side1_stake, side2_stake, options_open, dice>>
         /\ Handled("bet_input", "toggle_side1", -1)
    ELSE Ignored("bet_input")

\* Left click on the All Red checkbox
ClickSide2 ==
    IF options_open THEN CloseOptions("bet_input")
    ELSE IF BetGate
    THEN /\ side2_active' = ~side2_active
         /\ UNCHANGED <<state, message, result_message, credit, wager, side1_active,
                        side1_stake, side2_stake, options_open, dice>>
         /\ Handled("bet_input", "toggle_side2", -1)
    ELSE Ignored("bet_input")

\* Left click on the Roll / Roll Again button (one rectangle)
ClickRoll ==
    IF options_open THEN CloseOptions("primary_input")
    ELSE IF state = "betting"
    THEN StartRound(dice, result_message) /\ Handled("primary_input", "start_round", -1)
    ELSE IF state = "hold"
    THEN CommitReroll /\ Handled("primary_input", "commit_reroll", -1)
    ELSE IF state = "finished"
    THEN DoPrimaryAction /\ Handled("primary_input", "start_round", -1)
    ELSE Ignored("primary_input")

\* Left click on the Options button
ClickOptions ==
    /\ ~options_open
    /\ state \in OptionsPhases
    /\ options_open' = TRUE
    /\ UNCHANGED <<state, message, result_message, credit, wager, side1_active,
                   side2_active, side1_stake, side2_stake, dice>>
    /\ Handled("options_input", "open_options", -1)

\* Escape with the Options panel open
KeyEscape ==
    /\ options_open
    /\ CloseOptions("options_input")

Next ==
    \/ KeySpace
    \/ \E idx \in HoldKeys : KeyDigit(idx)
    \/ \E idx \in HoldKeys : ClickDie(idx)
    \/ \E delta \in WagerDeltas : KeyWager(delta)
    \/ \E delta \in WagerDeltas : ClickWager(delta)
    \/ ClickSide1
    \/ ClickSide2
    \/ ClickRoll
    \/ ClickOptions
    \/ KeyEscape
    \/ UpdateRolling
    \/ UpdatePresenting
    \/ UpdateIdle

Spec == Init /\ [][Next]_vars

\* main calls game.update(dt) once per frame (line 1082): a frame update
\* that stays possible is eventually made
SpecFair == Spec /\ WF_vars(UpdatePresenting)

(***************************************************************************)
(* The game played with the Roll button and all five hold keys, the bets   *)
(* left as they are at the start; the player presses the hold keys in the  *)
(* order of the dice and releases no die                                   *)
(***************************************************************************)
\* the die whose key the player presses next
NextKey(idx) == \A j \in Dice : dice[j].hold <=> j < idx

NextAllKeys ==
    \/ ClickRoll
    \/ \E idx \in Dice : NextKey(idx) /\ KeyDigit(idx)
    \/ UpdateRolling
    \/ UpdatePresenting
    \/ UpdateIdle

SpecAllKeys == Init /\ [][NextAllKeys]_vars

(***************************************************************************)
(* The hand evaluator on its own: compute_hand applied to every five-tuple *)
(* of faces and to its rearrangements                                      *)
(***************************************************************************)
InitHand ==
    /\ state = "betting"
    /\ message = ""
    /\ result_message = NoResult
    /\ credit \in InitCredits
    /\ wager = WagerInitial
    /\ side1_active = FALSE
    /\ side2_active = FALSE
    /\ side1_stake = 0
    /\ side2_stake = 0
    /\ options_open = FALSE
    /\ dice \in [Dice -> {NewDie(f) : f \in InitFaces}]
    /\ ev = Event("init", "none", -1)
    /\ start_credit = credit
    /\ start_wager = wager
    /\ held_faces = [i \in Dice |-> 0]
    /\ probe_faces \in [1 .. NumDice -> Faces]
    /\ probe_hand = Hand("unset", 0)
    /\ body = NewBody(220, 0, 0, 0, 0)
    /\ pair = NewPair(Puck(220, DropY, 0, 0), Puck(340, DropY, 0, 0))
    /\ table = NewTable(FreeDie(0, <<0, 0>>), FreeDie(1, <<0, 0>>))

\* compute_hand(probe_faces)
EvalHand ==
    /\ probe_hand' = compute_hand(probe_faces)
    /\ UNCHANGED <<gameVars, probe_faces, body, pair, table>>

\* compute_hand on the list with the entries at i and i + 1 exchanged
SwapFaces(i) ==
    /\ probe_faces' = [probe_faces EXCEPT ![i] = probe_faces[i + 1],
                                          ![i + 1] = probe_faces[i]]
    /\ probe_hand' = compute_hand(probe_faces')
    /\ UNCHANGED <<gameVars, body, pair, table>>

NextHand ==
    \/ EvalHand
    \/ \E i \in 1 .. (NumDice - 1) : SwapFaces(i)

SpecHand == InitHand /\ [][NextHand]_vars

(***************************************************************************)
(* One die rolled alone at dt = 1/FPS, from the drop of reset_roll         *)
(***************************************************************************)
MaxRollTicks == 600                    \* steps after which a roll is given up
DropXs == {220, 700}                   \* dice_positions, outermost
DropVxs == {-240, -120, 0, 120, 240}   \* random.uniform(-240, 240)
DropVys == {0, 45, 90}                 \* random.uniform(0, 90)
DropSpins == {-600, 300}               \* random.uniform(-600, 600)
DropAngles == {45}                     \* random.uniform(0, 360)

\* dice lying on the floor line that another die ran into: x, the velocity
\* the collision pass gave them, the resting steps counted until then and the
\* steps of the roll made
Knocks == {<<719, 54, -9, 17, 80>>, <<500, -41, -9, 5, 70>>}

KnockedBody(k) ==
    [NewBody(k[1], k[2], k[3], 0, 45) EXCEPT !.py = GroundY,
                                            !.rest_counter = k[4],
                                            !.ticks = k[5]]

InitDie ==
    /\ state = "betting"
    /\ message = ""
    /\ result_message = NoResult
    /\ credit \in InitCredits
    /\ wager = WagerInitial
    /\ side1_active = FALSE
    /\ side2_active = FALSE
    /\ side1_stake = 0
    /\ side2_stake = 0
    /\ options_open = FALSE
    /\ dice \in [Dice -> {NewDie(f) : f \in InitFaces}]
    /\ ev = Event("init", "none", -1)
    /\ start_credit = credit
    /\ start_wager = wager
    /\ held_faces = [i \in Dice |-> 0]
    /\ probe_faces = <<1, 1, 1, 1, 1>>
    /\ probe_hand = Hand("unset", 0)
    /\ \/ \E x \in DropXs, vx \in DropVxs, vy \in DropVys, sp \in DropSpins,
             an \in DropAngles : body = NewBody(x, vx, vy, sp, an)
       \/ \E k \in Knocks : body = KnockedBody(k)
    /\ pair = NewPair(Puck(220, DropY, 0, 0), Puck(340, DropY, 0, 0))
    /\ table = NewTable(FreeDie(0, <<0, 0>>), FreeDie(1, <<0, 0>>))

\* die.update(dt) on a die that is not yet revealed
StepDie ==
    /\ ~body.revealed
    /\ body.ticks < MaxRollTicks
    /\ \E angle \in RightAngles :
          body' = [BodyUpdate(body, angle) EXCEPT !.ticks = @ + 1]
    /\ UNCHANGED <<gameVars, probe_faces, probe_hand, pair, table>>

NextDie == StepDie

SpecDie == InitDie /\ [][NextDie]_vars

(***************************************************************************)
(* Two dice alone under one collision pass                                 *)
(***************************************************************************)
\* where the second die lies from the first, in px
PairOffsets == {<<0, 0>>, <<30, 40>>, <<110, 0>>, <<0, -80>>, <<-70, 25>>,
                <<79, 79>>, <<-1, 0>>, <<120, 0>>}
\* velocities of the two dice, in px/s
PairVels == {<<0, 0>>, <<120, 0>>, <<-240, 45>>, <<60, -90>>}

InitPair ==
    /\ state = "betting"
    /\ message = ""
    /\ result_message = NoResult
    /\ credit \in InitCredits
    /\ wager = WagerInitial
    /\ side1_active = FALSE
    /\ side2_active = FALSE
    /\ side1_stake = 0
    /\ side2_stake = 0
    /\ options_open = FALSE
    /\ dice \in [Dice -> {NewDie(f) : f \in InitFaces}]
    /\ ev = Event("init", "none", -1)
    /\ start_credit = credit
    /\ start_wager = wager
    /\ held_faces = [i \in Dice |-> 0]
    /\ probe_faces = <<1, 1, 1, 1, 1>>
    /\ probe_hand = Hand("unset", 0)
    /\ body = NewBody(220, 0, 0, 0, 0)
    /\ \E o \in PairOffsets, va \in PairVels, vb \in PairVels :
          pair = NewPair(Puck(W \div 2, DropY, va[1], va[2]),
                         Puck(W \div 2 + o[1], DropY + o[2], vb[1], vb[2]))
    /\ table = NewTable(FreeDie(0, <<0, 0>>), FreeDie(1, <<0, 0>>))

\* one pass of the pair loop over the two dice
ResolvePair ==
    /\ ~pair.resolved
    /\ LET r == Resolve(pair.di0, pair.dj0)
       IN  pair' = [pair EXCEPT !.di = r[1], !.dj = r[2], !.resolved = TRUE]
    /\ UNCHANGED <<gameVars, probe_faces, probe_hand, body, table>>

NextPair == ResolvePair

SpecPair == InitPair /\ [][NextPair]_vars

(***************************************************************************)
(* Two dice of a roll under the rolling branch of Game.update: each die    *)
(* makes its Die.update at dt = 1/FPS, then the collision pass runs over   *)
(* the dice that are neither parked nor in a tween.  Positions as above;   *)
(* anim_n counts the frames of a tween, so that anim_t = anim_n / FPS.     *)
(***************************************************************************)
\* ease_out_cubic, argument and value in 1/1000
ease_out_cubic(t) ==
    LET c == 1000 - clamp(t, 0, 1000)
    IN  1000 - (c * c * c) \div 1000000

\* Die.update_anim(1 / FPS) on a die in a tween
TweenStep(d) ==
    LET n == d.anim_n + 1
        \* anim_t / anim_dur, in 1/1000
        t == (n * 1000000) \div (FPS * d.anim_dur)
        k == ease_out_cubic(t)
    IN  IF n * 1000 >= FPS * d.anim_dur
        THEN [d EXCEPT !.anim_n = n, !.px = d.ex, !.py = d.ey,
                       !.anim_active = FALSE,
                       !.parked = IF d.anim_parked_end # "None"
                                  THEN d.anim_parked_end = "True" ELSE @,
                       !.anim_parked_end = "None"]
        ELSE [d EXCEPT !.anim_n = n,
                       !.px = d.sx + Scaled(d.ex - d.sx, k, 1000),
                       !.py = d.sy + Scaled(d.ey - d.sy, k, 1000)]

\* Die.update(1 / FPS); angle and sf: the angle and the face drawn if the die
\* settles, tf: the face of the tumble redraw, 0 for none
DieTick(d, angle, sf, tf) ==
    IF d.anim_active THEN TweenStep(d)
    ELSE IF d.parked THEN d
    ELSE LET b == BodyUpdate(d, angle)
         IN  [b EXCEPT !.face = IF b.revealed /\ ~d.revealed THEN sf
                                 ELSE IF ~b.revealed /\ tf # 0 THEN tf ELSE @]

\* variant: the collision pass over all dice
CollideAll(ds) == Resolve(ds[1], ds[2])

\* the collision pass (lines 654-677) over two dice
Collide(ds) ==
    IF \A i \in 1 .. 2 : ~ds[i].parked /\ ~ds[i].anim_active
    THEN Resolve(ds[1], ds[2])
    ELSE ds

\* velocities drawn by reset_roll
TableVels == {<<-240, 0>>, <<-120, 90>>, <<0, 45>>, <<240, 90>>}
\* frames a hold slide has made when the reroll is requested
SlideFrames == {0, 8}

InitTable ==
    /\ state = "betting"
    /\ message = ""
    /\ result_message = NoResult
    /\ credit \in InitCredits
    /\ wager = WagerInitial
    /\ side1_active = FALSE
    /\ side2_active = FALSE
    /\ side1_stake = 0
    /\ side2_stake = 0
    /\ options_open = FALSE
    /\ dice \in [Dice -> {NewDie(f) : f \in InitFaces}]
    /\ ev = Event("init", "none", -1)
    /\ start_credit = credit
    /\ start_wager = wager
    /\ held_faces = [i \in Dice |-> 0]
    /\ probe_faces = <<1, 1, 1, 1, 1>>
    /\ probe_hand = Hand("unset", 0)
    /\ body = NewBody(220, 0, 0, 0, 0)
    /\ pair = NewPair(Puck(220, DropY, 0, 0), Puck(340, DropY, 0, 0))
    /\ \E vb \in TableVels :
          \/ \E va \in TableVels : table = NewTable(FreeDie(0, va), FreeDie(1, vb))
          \/ \E f \in SettleFaces(0) : table = NewTable(ParkedDie(0, f), FreeDie(1, vb))
          \/ \E f \in SettleFaces(0), n \in SlideFrames :
                table = NewTable(SlidingDie(0, f, n), FreeDie(1, vb))

\* Game.update(1 / FPS) in rolling1 or rolling2, until all dice are revealed
TableTick ==
    /\ \E i \in 1 .. 2 : ~table.d[i].revealed
    /\ table.ticks < MaxRollTicks
    /\ \E angle \in RightAngles, tf \in {0} \cup TumbleFaces :
          LET ds == <<DieTick(table.d[1], angle, CHOOSE f \in SettleFaces(0) : TRUE, 0),
                      DieTick(table.d[2], angle, CHOOSE f \in SettleFaces(1) : TRUE, tf)>>
          IN  table' = [d |-> Collide(ds), ticks |-> table.ticks + 1]
    /\ UNCHANGED <<gameVars, probe_faces, probe_hand, body, pair>>

NextTable == TableTick

SpecTable == InitTable /\ [][NextTable]_vars

(***************************************************************************)
(* Properties                                                              *)
(***************************************************************************)
\* number of dice of fs showing face f
NumShowing(fs, f) == Cardinality({i \in DOMAIN fs : fs[i] = f})
FaceSet(fs) == {fs[i] : i \in DOMAIN fs}

\* the rule list of the hand evaluator, stated by counting
RuleHand(fs) ==
    IF \E f \in Faces : NumShowing(fs, f) = 5 THEN Hand("five_kind", 10)
    ELSE IF \E f \in Faces : NumShowing(fs, f) = 4 THEN Hand("four_kind", 7)
    ELSE IF \E f, g \in Faces : NumShowing(fs, f) = 3 /\ NumShowing(fs, g) = 2
         THEN Hand("full_house", 5)
    ELSE IF FaceSet(fs) = {1, 2, 3, 4, 5} \/ FaceSet(fs) = {2, 3, 4, 5, 6}
         THEN Hand("straight", 3)
    ELSE IF \E f \in Faces : NumShowing(fs, f) = 3 THEN Hand("three_kind", 1)
    ELSE Hand("none", 0)

\* C10: for every five-tuple of faces in 1..6 compute_hand returns the first
\* matching rule of five_kind, four_kind, full_house, straight, three_kind,
\* none, with multipliers 10, 7, 5, 3, 1, 0, and exchanging two entries of
\* the tuple does not change the result.
C10_HandRules ==
    [][/\ probe_hand' # Hand("unset", 0) => probe_hand' = RuleHand(probe_faces')
       /\ probe_hand # Hand("unset", 0) => probe_hand' = probe_hand]_vars

\* a full house evaluated after a rearrangement that changed the tuple
C10_Witness ==
    /\ probe_hand = Hand("full_house", 5)
    /\ probe_faces = <<2, 3, 2, 3, 2>>

\* the cost of a start request: the wager plus the stake of each enabled
\* side bet
RequestedCost ==
    wager + (IF side1_active THEN SideBase(wager) ELSE 0)
          + (IF side2_active THEN SideBase(wager) ELSE 0)

\* the main-bet payout of the five faces shown by the dice ds
FinalPay(ds) ==
    LET m == compute_hand(FacesOf(ds)).multiplier
    IN  IF m > 0 THEN wager * m ELSE 0

\* C1: a start request whose wager plus enabled side-bet stakes exceeds the
\* credit leaves the credit and the phase as they were.
C1_RejectedStart ==
    [][ev'.call = "start_round" /\ RequestedCost > credit
          => credit' = credit /\ state' = state]_vars

\* a start rejected for the side stakes although the wager alone is covered
C1_Witness ==
    /\ ev.call = "start_round"
    /\ message = "Insufficient credit for wager and side bets."
    /\ wager <= credit
    /\ RequestedCost > credit

\* C2: a start request that fails for insufficient credit, from betting or
\* from finished, leaves the stored side-bet stakes and every die's hold
\* flag, parked flag and tween-active flag as they were.
C2_FailedStartMutatesNothing ==
    [][ev'.call = "start_round" /\ state' = state
          => /\ side1_stake' = side1_stake
             /\ side2_stake' = side2_stake
             /\ \A i \in Dice : /\ dice'[i].hold = dice[i].hold
                                /\ dice'[i].parked = dice[i].parked
                                /\ dice'[i].anim_active = dice[i].anim_active]_vars

\* C3: the tick in which rolling2 sees all dice revealed adds wager x
\* multiplier of the final hand to the credit (nothing for a multiplier of
\* 0) and no other tick of rolling2, presenting or finished pays; a round
\* played without side bets reaches finished with the credit before the
\* start minus the wager plus wager x multiplier of the final faces.
C3_MainPayout ==
    [][/\ state = "rolling2" /\ state' = "presenting"
            => credit' - credit - FinalPay(dice') \in {0, AllRedFactor * side2_stake}
       /\ state = "rolling2" /\ state' = "rolling2" => credit' = credit
       /\ state = "presenting" => credit' = credit
       /\ state = "finished" /\ state' = "finished" => credit' = credit
       /\ state = "presenting" /\ state' = "finished"
             /\ side1_stake = 0 /\ side2_stake = 0
            => credit' = start_credit - wager + FinalPay(dice')]_vars

\* a round without side bets finished with a paying hand
C3_Witness ==
    /\ state = "finished"
    /\ ev.kind = "tick"
    /\ side1_stake = 0
    /\ side2_stake = 0
    /\ FinalPay(dice) > 0
    /\ credit = start_credit - wager + FinalPay(dice)

\* C4: the one-roll side bet is resolved on the step from rolling1 to hold
\* and nowhere else: that step adds 5 x the one-roll stake if the bet was
\* taken and the opening hand has a non-zero multiplier and nothing
\* otherwise; the other steps of rolling1 and of hold leave the credit alone.
C4_OneRollResolved ==
    [][/\ state = "rolling1" /\ state' = "hold"
            => credit' = credit +
                  (IF side1_stake > 0 /\ compute_hand(FacesOf(dice')).multiplier # 0
                   THEN 5 * side1_stake ELSE 0)
       /\ state = "rolling1" /\ state' = "rolling1" => credit' = credit
       /\ state = "hold" => credit' = credit]_vars

\* the opening hand paid the one-roll side bet
C4_Witness ==
    /\ state = "hold"
    /\ side1_stake > 0
    /\ compute_hand(FacesOf(dice)).multiplier # 0
    /\ credit = start_credit - wager - side1_stake - side2_stake + 5 * side1_stake

\* C5: on the step from rolling2 to presenting the all-red side bet pays
\* 15 x its stake iff it was taken and each of the five final faces is 1
\* or 4; is_all_red is true of a five-tuple exactly when all its entries
\* are 1 or 4, whatever its hand.
C5_AllRedResolved ==
    [][state = "rolling2" /\ state' = "presenting"
          => /\ credit' - credit - FinalPay(dice') =
                   (IF side2_stake > 0 /\ \A i \in Dice : dice'[i].face \in {1, 4}
                    THEN 15 * side2_stake ELSE 0)
             /\ \A fs \in [1 .. NumDice -> Faces] :
                   is_all_red(fs) <=> \A k \in 1 .. NumDice : fs[k] = 1 \/ fs[k] = 4]_vars

\* the all-red side bet was taken and the final faces are all red
C5_Witness ==
    /\ state = "presenting"
    /\ side2_stake > 0
    /\ \A i \in Dice : dice[i].face \in {1, 4}
    /\ credit >= 15 * side2_stake

\* C6: the phase changes only along betting, rolling1, hold, rolling2,
\* presenting, finished, and from finished to rolling1.
C6_PhaseOrder ==
    [][state' # state
          => <<state, state'>> \in {<<"betting", "rolling1">>, <<"rolling1", "hold">>,
                                    <<"hold", "rolling2">>, <<"rolling2", "presenting">>,
                                    <<"presenting", "finished">>,
                                    <<"finished", "rolling1">>}]_vars

\* a second round started from finished: the dice still carry the duration
\* of the presenting tween
C6_Witness ==
    /\ state = "rolling1"
    /\ ev.call = "start_round"
    /\ \A i \in Dice : dice[i].anim_dur = PresentAnimMs

\* C7: a hold toggle (key 1-5 or a click on a die) in a phase other than
\* hold leaves the dice, the phase and the credit as they were.
C7_ToggleOutsideHold ==
    [][ev'.kind = "hold_input" /\ state # "hold"
          => dice' = dice /\ state' = state /\ credit' = credit]_vars

\* a hold toggle arrived while the dice were rolling
C7_Witness ==
    /\ ev.kind = "hold_input"
    /\ state \in {"rolling1", "rolling2"}
    /\ \E i \in Dice : ~dice[i].revealed

\* C8: commit_reroll runs only in hold and leaves the phase rolling2; the
\* primary input (Space or the roll button) in rolling1, rolling2 and
\* presenting leaves the dice, the phase and the credit as they were, and
\* in hold, with the Options panel closed, it sets the phase to rolling2.
C8_RerollOnlyInHold ==
    [][/\ ev'.call = "commit_reroll" => state = "hold" /\ state' = "rolling2"
       /\ ev'.kind = "primary_input" /\ state \in {"rolling1", "rolling2", "presenting"}
            => dice' = dice /\ state' = state /\ credit' = credit
       /\ ev'.kind = "primary_input" /\ state = "hold" /\ ~options_open
            => state' = "rolling2"]_vars

\* the primary input arrived while the final dice were rolling
C8_Witness ==
    /\ ev.kind = "primary_input"
    /\ ev.call = "none"
    /\ state = "rolling2"
    /\ \E i \in Dice : ~dice[i].revealed

\* C9: toggle_hold_index on a die whose tween is active changes no die:
\* the hold flag and the tween stay as they were.
C9_ToggleDuringTween ==
    [][ev'.call = "toggle_hold_index" /\ dice[ev'.arg].anim_active
          => dice' = dice]_vars

\* a toggle of a die whose tween was under way
C9_Witness ==
    /\ ev.call = "toggle_hold_index"
    /\ dice[ev.arg].anim_active
    /\ dice[ev.arg].anim_t > 0

\* a step that runs reset_roll on die i: an accepted start, or a reroll
\* with the die not held
ResetsDie(i) ==
    \/ ev'.call = "start_round" /\ state' = "rolling1"
    \/ ev'.call = "commit_reroll" /\ ~dice[i].hold

\* C11: a die held when the reroll is requested shows, through the second
\* roll and at the final evaluation, the face it showed at the request.
C11_HeldDiceInert ==
    state \in {"rolling2", "presenting", "finished"}
       => \A i \in Dice : held_faces[i] # 0 => dice[i].face = held_faces[i]

\* the final hand evaluated with die 0 held and die 1 rolled again
C11_Witness ==
    /\ state = "presenting"
    /\ held_faces[0] # 0
    /\ held_faces[1] = 0
    /\ dice[0].face = held_faces[0]
    /\ dice[0].hold

\* C12: the face of a revealed die changes only on a step that resets the
\* die; no face changes in hold, presenting or finished except by the
\* reset of a reroll or of a new round.
C12_FaceFixedOnceRevealed ==
    [][\A i \in Dice :
          /\ dice[i].revealed /\ dice'[i].face # dice[i].face => ResetsDie(i)
          /\ state \in {"hold", "presenting", "finished"}
                /\ dice'[i].face # dice[i].face => ResetsDie(i)]_vars

\* die 0 settled while die 1 still rolls, and a later tick went by
C12_Witness ==
    /\ state = "rolling1"
    /\ ev.kind = "tick"
    /\ dice[0].revealed
    /\ dice[0].rest_counter = 0
    /\ ~dice[1].revealed

\* C13: revealed goes from true to false only by reset_roll: on an accepted
\* start, for every die, or on a reroll, for a die not held.
C13_RevealedMonotonic ==
    [][\A i \in Dice :
          dice[i].revealed /\ ~dice'[i].revealed => ResetsDie(i)]_vars

\* a reroll that left held die 0 revealed and un-revealed die 1
C13_Witness ==
    /\ state = "rolling2"
    /\ ev.call = "commit_reroll"
    /\ dice[0].hold /\ dice[0].revealed
    /\ ~dice[1].hold /\ ~dice[1].revealed

\* C14 as stated: right after a reroll every held die is revealed and
\* parked, and every other die is reset.
C14_HeldParkedAtOnce ==
    [][ev'.call = "commit_reroll"
          => \A i \in Dice :
                IF dice[i].hold
                THEN dice'[i].revealed /\ dice'[i].parked
                ELSE /\ ~dice'[i].revealed /\ dice'[i].rest_counter = 0
                     /\ ~dice'[i].parked /\ ~dice'[i].anim_active]_vars

\* C14 (amended): right after a reroll every held die is revealed and is
\* parked or still slides into its slot with parking as the end of the
\* slide; every die not held is reset: not revealed, rest counter 0, not
\* parked, no active tween.
C14_HeldParkedOrSliding ==
    [][ev'.call = "commit_reroll"
          => \A i \in Dice :
                IF dice[i].hold
                THEN /\ dice'[i].revealed
                     /\ \/ dice'[i].parked
                        \/ /\ dice'[i].anim_active
                           /\ dice'[i].anim_end = "slot"
                           /\ dice'[i].anim_parked_end = "True"
                ELSE /\ ~dice'[i].revealed /\ dice'[i].rest_counter = 0
                     /\ ~dice'[i].parked /\ ~dice'[i].anim_active]_vars

\* a reroll requested while held die 0 was still sliding into its slot
C14_Witness ==
    /\ state = "rolling2"
    /\ ev.call = "commit_reroll"
    /\ dice[0].hold /\ dice[0].anim_active /\ ~dice[0].parked
    /\ ~dice[2].hold /\ ~dice[2].revealed

\* C16: a step taken in presenting changes of a die only its tween and its
\* position and leaves the credit alone; the phase becomes finished on the
\* step after which no die has an active tween, and on no other; every die
\* is then parked, without active tween, at its slot; and presenting is
\* always followed by finished.
C16_PresentingEnds ==
    /\ [][state = "presenting"
            => /\ \A i \in Dice : /\ dice'[i].face = dice[i].face
                                  /\ dice'[i].revealed = dice[i].revealed
                                  /\ dice'[i].hold = dice[i].hold
                                  /\ dice'[i].rest_counter = dice[i].rest_counter
               /\ credit' = credit
               /\ state' \in {"presenting", "finished"}
               /\ state' = "finished" <=> all_anims_done(dice')
               /\ state' = "finished"
                     => \A i \in Dice : /\ dice'[i].parked
                                        /\ ~dice'[i].anim_active
                                        /\ dice'[i].pos = "slot"]_vars
    /\ (state = "presenting") ~> (state = "finished")

\* finished just entered, the dice parked at their slots
C16_Witness ==
    /\ state = "finished"
    /\ ev.kind = "tick"
    /\ message = ""
    /\ \A i \in Dice : /\ dice[i].parked /\ dice[i].pos = "slot"
                       /\ dice[i].anim_t >= PresentAnimMs

\* C19: a tick in finished changes neither the phase nor the credit nor a
\* face; an accepted start from finished leaves the phase rolling1 and
\* every die not held, not parked, without active tween, not revealed and
\* with rest counter 0.
C19_FinishedUntilStart ==
    [][state = "finished"
          => /\ ev'.kind = "tick"
                  => /\ state' = "finished"
                     /\ credit' = credit
                     /\ \A i \in Dice : dice'[i].face = dice[i].face
             /\ state' # "finished"
                  => /\ ev'.call = "start_round"
                     /\ state' = "rolling1"
                     /\ \A i \in Dice : /\ ~dice'[i].hold
                                        /\ ~dice'[i].parked
                                        /\ ~dice'[i].anim_active
                                        /\ ~dice'[i].revealed
                                        /\ dice'[i].rest_counter = 0]_vars

\* a second round just started, the first having ended with die 0 held
C19_Witness ==
    /\ state = "rolling1"
    /\ ev.call = "start_round"
    /\ start_credit < 15
    /\ \A i \in Dice : ~dice[i].revealed /\ dice[i].pos = "drop"
    /\ dice[0].anim_start = "slot"

\* C20: the credit changes only on an accepted start, by minus the wager
\* and the stored side stakes, on the tick from rolling1 to hold and on the
\* tick from rolling2 to presenting; the other ticks, the hold toggles,
\* the reroll and a rejected start leave it alone.
C20_CreditChangePoints ==
    [][/\ credit' # credit
            => \/ /\ ev'.call = "start_round"
                  /\ state \in {"betting", "finished"} /\ state' = "rolling1"
                  /\ credit' = credit - (wager + side1_stake' + side2_stake')
               \/ ev'.kind = "tick" /\ state = "rolling1" /\ state' = "hold"
               \/ ev'.kind = "tick" /\ state = "rolling2" /\ state' = "presenting"
       /\ ev'.call \in {"toggle_hold_index", "commit_reroll"} => credit' = credit
       /\ ev'.kind = "hold_input" => credit' = credit
       /\ ev'.call = "start_round" /\ state' # "rolling1" => credit' = credit]_vars

\* a round started with the all-red side bet: the credit fell by the wager
\* and the stake
C20_Witness ==
    /\ state = "rolling1"
    /\ ev.call = "start_round"
    /\ side1_stake = 0
    /\ side2_stake > 0
    /\ credit = start_credit - wager - side2_stake

PairVx == pair.dj0.px - pair.di0.px
PairVy == pair.dj0.py - pair.di0.py
PairDist == Length(PairVx, PairVy)
PairDMin == Radius + Radius
PairOverlap == PairDMin - PairDist
PairOverlapping == PairDist > 0 /\ PairDist < PairDMin
\* the move of the first die, and the square of the distance after the pass
PairMoveX == pair.di.px - pair.di0.px
PairMoveY == pair.di.py - pair.di0.py
PairDistSqAfter ==
    (pair.dj.px - pair.di.px) * (pair.dj.px - pair.di.px)
      + (pair.dj.py - pair.di.py) * (pair.dj.py - pair.di.py)
\* the two dice were moved, and their velocities changed, by opposite amounts
PairOpposite ==
    /\ pair.dj.px - pair.dj0.px = -PairMoveX
    /\ pair.dj.py - pair.dj0.py = -PairMoveY
    /\ pair.dj.vx - pair.dj0.vx = -(pair.di.vx - pair.di0.vx)
    /\ pair.dj.vy - pair.dj0.vy = -(pair.di.vy - pair.di0.vy)
    /\ pair.di.vx + pair.dj.vx = pair.di0.vx + pair.dj0.vx
    /\ pair.di.vy + pair.dj.vy = pair.di0.vy + pair.dj0.vy
\* coincident centres are skipped
PairSkipped ==
    PairDist = 0 => pair.di = pair.di0 /\ pair.dj = pair.dj0

\* C17 as stated: after the pass over an overlapping pair the centres are at
\* least the sum of the radii apart, each die moved by exactly half the
\* overlap along the line joining the centres, in opposite directions, the
\* velocity changes equal and opposite; coincident centres are skipped.
C17_ExactSeparation ==
    pair.resolved =>
        /\ PairSkipped
        /\ PairOverlapping =>
              /\ PairDistSqAfter >= PairDMin * PairDMin
              /\ PairOpposite
              /\ PairMoveX * PairVx + PairMoveY * PairVy <= 0
              /\ PairMoveX * PairVy - PairMoveY * PairVx = 0
              /\ 4 * (PairMoveX * PairMoveX + PairMoveY * PairMoveY)
                    = PairOverlap * PairOverlap

\* C17 (amended): the same, with the distance after the pass and the length
\* and direction of the moves met up to the rounding of the arithmetic (four
\* steps of the resolution on the distance, three on each move).
C17_SeparationUpToRounding ==
    pair.resolved =>
        /\ PairSkipped
        /\ PairOverlapping =>
              /\ PairDistSqAfter >= (PairDMin - 4) * (PairDMin - 4)
              /\ PairDistSqAfter <= (PairDMin + 4) * (PairDMin + 4)
              /\ PairOpposite
              /\ PairMoveX * PairVx + PairMoveY * PairVy <= 0
              /\ Abs(PairMoveX * PairVy - PairMoveY * PairVx)
                    <= 2 * (Abs(PairVx) + Abs(PairVy))
              /\ 2 * Length(PairMoveX, PairMoveY) <= PairOverlap
              /\ 2 * (Length(PairMoveX, PairMoveY) + 3) >= PairOverlap

\* an overlapping pair off the axes whose velocities the pass changed, pushed
\* apart to within rounding of the sum of the radii
C17_Witness ==
    /\ pair.resolved
    /\ PairOverlapping
    /\ PairVx # 0 /\ PairVy # 0
    /\ pair.di.vx # pair.di0.vx
    /\ PairDistSqAfter < PairDMin * PairDMin
    /\ PairDistSqAfter >= (PairDMin - 4) * (PairDMin - 4)

\* C26: the credit balance is never negative.
C26_CreditNonNegative == credit >= 0

\* a round started with the whole balance: wager and side stake together
\* took the credit to 0
C26_Witness ==
    /\ state = "rolling1"
    /\ ev.call = "start_round"
    /\ start_credit > 0
    /\ side1_stake + side2_stake > 0
    /\ credit = 0

\* C27: an input changes the wager and the side-bet selections only in
\* betting and finished, and the main payout at the rolling2 resolution is
\* the final hand's multiplier times the wager deducted at the start of the
\* round.
C27_WagerFixedInRound ==
    [][/\ state \notin {"betting", "finished"} =>
             /\ wager' = wager
             /\ side1_active' = side1_active
             /\ side2_active' = side2_active
       /\ state = "rolling2" /\ state' = "presenting" =>
             /\ wager = start_wager
             /\ result_message'.payout
                   = start_wager * compute_hand(FacesOf(dice')).multiplier]_vars

\* a round resolved with a winning final hand: the payout is the multiplier
\* times the wager of its start
C27_Witness ==
    /\ state = "presenting"
    /\ ev.kind = "tick"
    /\ wager = start_wager
    /\ result_message.payout > 0
    /\ result_message.payout = start_wager * compute_hand(FacesOf(dice)).multiplier

\* C28: in the hold phase a die without an active tween is parked exactly
\* when it is held.
C28_ParkedIffHeld ==
    state = "hold" =>
        \A i \in Dice : ~dice[i].anim_active => (dice[i].parked <=> dice[i].hold)

\* the hold phase with one die held and parked in its slot and another one
\* released and back at its home position
C28_Witness ==
    /\ state = "hold"
    /\ \E i \in Dice : /\ dice[i].hold /\ dice[i].parked /\ ~dice[i].anim_active
                       /\ dice[i].pos = "slot"
    /\ \E j \in Dice : /\ ~dice[j].hold /\ ~dice[j].parked /\ ~dice[j].anim_active
                       /\ dice[j].pos = "home" /\ dice[j].anim_dur = HoldAnimMs

\* C30: in hold, presenting and finished all five dice are revealed, and a
\* roll is resolved (the phase leaves rolling1 or rolling2, the credit or the
\* result message changes) only by a tick at whose end all five dice are
\* revealed.
C30_RevealedWhenEvaluated ==
    /\ [](state \in {"hold", "presenting", "finished"} =>
             \A i \in Dice : dice[i].revealed)
    /\ [][/\ state \in {"rolling1", "rolling2"}
          /\ \/ state' # state
             \/ credit' # credit
             \/ result_message' # result_message
          => /\ ev'.kind = "tick"
             /\ \A i \in Dice : dice'[i].revealed]_vars

\* the opening hand evaluated by the tick on which the dice settled
C30_Witness ==
    /\ state = "hold"
    /\ ev.kind = "tick"
    /\ message = "Click dice to hold, then Roll Again."
    /\ \A i \in Dice : dice[i].revealed /\ dice[i].pos = "free"
    /\ dice[1].rest_counter = REST_FRAMES_REQUIRED

\* C24: no call of the game update receives a dt larger than 1/FPS s (dt in
\* ms, so dt * FPS is at most 1000).
C24_DtCapped ==
    ev.call = "update" => ev.arg * FPS <= 1000

\* the reroll was requested with all five dice held
AllHeldAtReroll == \A i \in Dice : held_faces[i] # 0

\* C29: if all five dice are held when the reroll is requested, no die is
\* re-rolled, and the first tick of rolling2 evaluates the final hand on the
\* five faces of the first roll and moves to presenting.
C29_AllHeldResolvesAtOnce ==
    [][/\ state = "hold" /\ state' = "rolling2" /\ (\A i \in Dice : dice[i].hold)
          => \A i \in Dice : /\ dice'[i].revealed
                             /\ dice'[i].face = dice[i].face
                             /\ dice'[i].rest_counter = dice[i].rest_counter
       /\ state = "rolling2" /\ AllHeldAtReroll /\ ev'.kind = "tick"
          => /\ state' = "presenting"
             /\ \A i \in Dice : dice'[i].face = held_faces[i]
             /\ result_message'.hand = compute_hand(FacesOf(dice)).name
             /\ result_message'.payout
                   = wager * compute_hand([i \in 1 .. NumDice |-> held_faces[i - 1]]).multiplier
             /\ credit' = credit + result_message'.payout]_vars

\* presenting reached by the first tick after a reroll with five held dice,
\* the last of them still sliding into its slot when the reroll was requested
C29_Witness ==
    /\ state = "presenting"
    /\ AllHeldAtReroll
    /\ \A i \in Dice : dice[i].hold /\ dice[i].face = held_faces[i]
    /\ \E i \in Dice : ~dice[i].parked
    /\ \E i \in Dice : dice[i].parked

\* C22: a physics step adds one to the rest counter if after it both
\* velocity components are below REST_EPS in absolute value and the die is
\* within 0.1 px of the floor line, and sets it to 0 otherwise; the step that
\* reveals the die ends a run of at least REST_FRAMES_REQUIRED such steps
\* and leaves the spin 0 and the angle one of 0, 90, 180, 270.
C22_RestDetection ==
    [][/\ body'.rest_counter =
             IF /\ Abs(body'.vy) < REST_EPS * Unit
                /\ Abs(body'.vx) < REST_EPS * Unit
                /\ 10 * (GroundY - body'.py) <= Unit
             THEN body.rest_counter + 1 ELSE 0
       /\ body'.revealed /\ ~body.revealed =>
             /\ body'.rest_counter >= REST_FRAMES_REQUIRED
             /\ body'.ticks >= body'.rest_counter
             /\ body'.spin = 0
             /\ \E a \in {0, 90, 180, 270} : body'.angle = a * Unit
       /\ body'.revealed => body.revealed \/ body'.rest_counter >= 18]_vars

\* a die that was run into after 17 resting steps, lost its count, came to
\* rest again and was revealed, its angle set to 270
C22_Witness ==
    /\ body.revealed
    /\ body.spin = 0
    /\ body.angle = 270 * Unit
    /\ body.rest_counter = REST_FRAMES_REQUIRED
    /\ body.ticks > 80 + REST_FRAMES_REQUIRED

IsActive(d) == ~d.parked /\ ~d.anim_active

\* the centres of the two dice of the table are closer than the two radii
TableOverlap ==
    LET vx == table.d[2].px - table.d[1].px
        vy == table.d[2].py - table.d[1].py
    IN  /\ Abs(vx) < 2 * Radius
        /\ Abs(vy) < 2 * Radius
        /\ Length(vx, vy) < 2 * Radius

\* C25 (as claimed): at the end of every rolling tick, after the physics
\* step and the collision pass, the centre of every die that is neither
\* parked nor in a tween is between the walls and not below the floor line.
C25_FreeDiceInBounds ==
    table.ticks > 0 =>
        \A i \in 1 .. 2 :
            IsActive(table.d[i]) =>
                /\ LeftWall <= table.d[i].px
                /\ table.d[i].px <= RightWall
                /\ table.d[i].py <= GroundY

\* C21: a rolling tick leaves the velocity, spin, angle, rest counter,
\* revealed flag, hold flag and face of a die that is parked or in a tween
\* as they were, and the position and velocity of the free die beside it
\* are those its own physics step gave it, whether or not the two overlap.
C21_ParkedExempt ==
    [][\A i \in 1 .. 2 :
          LET d == table.d[i]
              e == table'.d[i]
              f == table.d[3 - i]
              g == table'.d[3 - i]
              b == BodyUpdate(f, 0)
          IN  ~IsActive(d) =>
                  /\ e.vx = d.vx /\ e.vy = d.vy
                  /\ e.spin = d.spin /\ e.angle = d.angle
                  /\ e.rest_counter = d.rest_counter
                  /\ e.revealed = d.revealed
                  /\ e.hold = d.hold /\ e.face = d.face
                  /\ IsActive(f) =>
                         /\ g.px = b.px /\ g.py = b.py
                         /\ g.vx = b.vx /\ g.vy = b.vy]_vars

\* a held die ended its slide and is parked in its slot, and the free die
\* beside it overlaps it after the tick
C21_Witness ==
    /\ table.ticks > 0
    /\ table.d[1].parked
    /\ table.d[1].anim_n * 1000 >= FPS * HoldAnimMs
    /\ IsActive(table.d[2])
    /\ TableOverlap

====
